---- MODULE Spec2Model ----
(***************************************************************************)
(* Forward curves of bondlib: the piecewise-flat numeric kernel            *)
(* (bondlib/tmx_pwflat.h), the curve interface with its Constant and Sum   *)
(* variants (tmx_curve.h) and the PiecewiseFlat curve (tmx_curve_pwflat.h).*)
(*                                                                         *)
(* Times (type T) are integers: every integer of the model is exactly      *)
(* representable as a double, so the kernel's sums and products are exact. *)
(* Rates (type F) are doubles that may be NaN: a rate is a record          *)
(* [k |-> "num", v |-> x] or [k |-> "nan", v |-> 0].                       *)
(* A read the language leaves undefined returns [k |-> "garbage", v |-> 0],*)
(* a double the program does not determine, or does not return.            *)
(***************************************************************************)
EXTENDS Integers, Sequences, FiniteSets, TLC

(* ------------------------------ bounds -------------------------------- *)
\* longest pillar array given to the kernel
MaxN == 3
\* largest pillar time; query times range over -1 .. MaxT + 1
MaxT == 3
\* largest defined rate
MaxRate == 2

(* --------------------------- doubles (type F) -------------------------- *)
NaN == [k |-> "nan", v |-> 0]
Num(x) == [k |-> "num", v |-> x]
IsNaN(a) == a.k = "nan"
\* an evaluation that ran into undefined behaviour
UB == [k |-> "ub", v |-> 0]
IsUB(a) == a.k = "ub"
\* the outcome of a call that did not return (stack exhausted, access fault)
Fault == [k |-> "fault", v |-> 0]

\* a double the program does not determine: whatever the storage that an
\* undefined read touches holds, any value
Garbage == [k |-> "garbage", v |-> 0]
IsGarbage(a) == a.k = "garbage"

\* the infinities
Inf == [k |-> "inf", v |-> 0]
NegInf == [k |-> "ninf", v |-> 0]
IsInf(a) == a.k \in {"inf", "ninf"}
\* the sign of a number or an infinity: -1, 0 or 1
Sign(a) ==
    IF a.k = "inf" THEN 1
    ELSE IF a.k = "ninf" THEN -1
    ELSE IF a.v > 0 THEN 1 ELSE IF a.v < 0 THEN -1 ELSE 0

\* a + b, a - b, a * b on doubles: NaN is absorbing, infinities of opposite
\* sign add up to NaN, and 0 times an infinity is NaN
FAdd(a, b) ==
    IF IsUB(a) \/ IsUB(b) THEN UB
    ELSE IF IsNaN(a) \/ IsNaN(b) THEN NaN
    ELSE IF IsGarbage(a) \/ IsGarbage(b) THEN Garbage
    ELSE IF IsInf(a) /\ IsInf(b) THEN (IF a = b THEN a ELSE NaN)
    ELSE IF IsInf(a) THEN a
    ELSE IF IsInf(b) THEN b
    ELSE Num(a.v + b.v)
FSub(a, b) ==
    IF IsUB(a) \/ IsUB(b) THEN UB
    ELSE IF IsNaN(a) \/ IsNaN(b) THEN NaN
    ELSE IF IsGarbage(a) \/ IsGarbage(b) THEN Garbage
    ELSE IF IsInf(a) /\ IsInf(b) THEN (IF a = b THEN NaN ELSE a)
    ELSE IF IsInf(a) THEN a
    ELSE IF IsInf(b) THEN (IF b = Inf THEN NegInf ELSE Inf)
    ELSE Num(a.v - b.v)
FMul(a, b) ==
    IF IsUB(a) \/ IsUB(b) THEN UB
    ELSE IF IsNaN(a) \/ IsNaN(b) THEN NaN
    ELSE IF IsGarbage(a) \/ IsGarbage(b) THEN Garbage
    ELSE IF IsInf(a) \/ IsInf(b)
         THEN (IF Sign(a) * Sign(b) = 0 THEN NaN
               ELSE IF Sign(a) * Sign(b) > 0 THEN Inf ELSE NegInf)
    ELSE Num(a.v * b.v)

(* ------------------------ kernel: tmx::pwflat -------------------------- *)
\* std::adjacent_find(b, e, greater_equal): first i with t[i] >= t[i+1], or
\* the end (n + 1) when there is none
RECURSIVE adjacent_find(_, _, _)
adjacent_find(t, n, i) ==
    IF i >= n THEN n + 1
    ELSE IF t[i] >= t[i + 1] THEN i
    ELSE adjacent_find(t, n, i + 1)

\* strictly increasing values
monotonic(n, t) == (n + 1) = adjacent_find(t, n, 1)

\* std::lower_bound(t, t + n, val): the halving search over [first, first+len)
RECURSIVE lower_bound_loop(_, _, _, _)
lower_bound_loop(t, first, len, val) ==
    IF len > 0
    THEN LET half == len \div 2
             middle == first + half
         IN  IF t[middle] < val
             THEN lower_bound_loop(t, middle + 1, len - half - 1, val)
             ELSE lower_bound_loop(t, first, half, val)
    ELSE first

\* the search with the comparison of std::upper_bound
RECURSIVE lower_bound_le(_, _, _, _)
lower_bound_le(t, first, len, val) ==
    IF len > 0
    THEN LET half == len \div 2
             middle == first + half
         IN  IF t[middle] <= val
             THEN lower_bound_le(t, middle + 1, len - half - 1, val)
             ELSE lower_bound_le(t, first, half, val)
    ELSE first

lower_bound_upper(t, n, val) == lower_bound_le(t, 1, n, val)

\* index (1-based) of the first pillar not less than val, n + 1 for the end
lower_bound(t, n, val) == lower_bound_loop(t, 1, n, val)

\* f(u) assuming t[i] monotonically increasing
value(u, n, t, f, _f) ==
    IF u < 0 THEN NaN
    ELSE IF n = 0 THEN _f
    ELSE LET ti == lower_bound(t, n, u)
         IN  IF ti = n + 1 THEN _f ELSE f[ti]

\* the for loop of integral: state [i, I, t_], i the 1-based next index
RECURSIVE integral_loop(_, _, _, _, _, _, _)
integral_loop(u, n, t, f, i, I, t_) ==
    IF i <= n /\ t[i] <= u
    THEN integral_loop(u, n, t, f, i + 1,
                       FAdd(I, FMul(f[i], Num(t[i] - t_))), t[i])
    ELSE [i |-> i, I |-> I, t_ |-> t_]

\* integral whose partial last interval always takes the extrapolation value
integral_tail_f(u, n, t, f, _f) ==
    IF u < 0 THEN NaN
    ELSE IF u = 0 THEN Num(0)
    ELSE IF n = 0 THEN FMul(Num(u), _f)
    ELSE LET s == integral_loop(u, n, t, f, 1, Num(0), 0)
         IN  IF u > s.t_
             THEN FAdd(s.I, FMul(_f, Num(u - s.t_)))
             ELSE s.I

\* int_0^u f(t) dt
integral(u, n, t, f, _f) ==
    IF u < 0 THEN NaN
    ELSE IF u = 0 THEN Num(0)
    ELSE IF n = 0 THEN FMul(Num(u), _f)
    ELSE LET s == integral_loop(u, n, t, f, 1, Num(0), 0)
         IN  IF u > s.t_
             THEN FAdd(s.I, FMul(IF s.i = n + 1 THEN _f ELSE f[s.i],
                                 Num(u - s.t_)))
             ELSE s.I

\* the kernel the PiecewiseFlat curve calls for its value
forward(u, n, t, f, _f) == value(u, n, t, f, _f)

(* ------------------- translate: times as doubles ----------------------- *)
\* A shift may be large against the times it moves, and then t - u is
\* rounded.  A time of translate is a double near a multiple of 2^53:
\* [hi, lo] stands for hi * 2^53 + lo, with hi in -1 .. 1 and lo small.
Wide(hi, lo) == [hi |-> hi, lo |-> lo]
Zero == Wide(0, 0)
\* the part of x beyond 2^53 in magnitude
Beyond(x) == IF x.hi > 0 THEN x.lo ELSE 0 - x.lo
\* a double has 53 bits: up to 2^53 every integer is a double, between 2^53
\* and 2^54 only the even ones are
Representable(x) == x.hi = 0 \/ Beyond(x) <= 0 \/ Beyond(x) % 2 = 0
\* round to nearest, ties to the even mantissa: an odd number beyond 2^53
\* lies halfway between two doubles, and the one that is a multiple of 4 has
\* the even mantissa
TRound(x) ==
    IF Representable(x) THEN x
    ELSE LET m == Beyond(x)
             c == IF (m - 1) % 4 = 0 THEN m - 1 ELSE m + 1
         IN  Wide(x.hi, IF x.hi > 0 THEN c ELSE 0 - c)
\* a - b before rounding, and as the double the subtraction returns
TExact(a, b) == Wide(a.hi - b.hi, a.lo - b.lo)
TSub(a, b) == TRound(TExact(a, b))
TNeg(a) == Wide(0 - a.hi, 0 - a.lo)
TLess(a, b) == a.hi < b.hi \/ (a.hi = b.hi /\ a.lo < b.lo)

\* std::upper_bound(t, t + n, val): the halving search over [first, first+len)
RECURSIVE upper_bound_loop(_, _, _, _)
upper_bound_loop(t, first, len, val) ==
    IF len > 0
    THEN LET half == len \div 2
             middle == first + half
         IN  IF TLess(val, t[middle])
             THEN upper_bound_loop(t, first, half, val)
             ELSE upper_bound_loop(t, middle + 1, len - half - 1, val)
    ELSE first
\* index (1-based) of the first time greater than val, n + 1 for the end
upper_bound(t, n, val) == upper_bound_loop(t, 1, n, val)

\* t => t - u > 0: the array after the shift in place, and the span
\* (t + m, n - m) of the times still positive
translate(u, n, t) ==
    LET s == [i \in 1 .. n |-> TSub(t[i], u)]
        m == upper_bound(s, n, Zero) - 1
    IN  [t |-> s, m |-> m, size |-> n - m]

(* class tmx::translate: members dt, n and the span t *)
\* translate(T dt, std::span<T> t): shifts the array, keeps the size of the
\* span of positive times
translate_ctor(dt, t) ==
    LET r == translate(dt, Len(t), t)
    IN  [dt |-> dt, n |-> r.size, t |-> r.t]
\* a destructor that shifts back only the span of positive times
translate_dtor_last(dt, n, t) ==
    [i \in 1 .. Len(t) |->
       IF i > Len(t) - n THEN TSub(t[i], TNeg(dt)) ELSE t[i]]
\* ~translate(): shifts the whole array by -dt; the array afterwards
translate_dtor(dt, n, t) == translate(TNeg(dt), Len(t), t).t
\* operator std::span<T>(): t.last(n)
translate_span(n, t) == SubSeq(t, Len(t) - n + 1, Len(t))

(* ------------------------ curves: tmx::curve --------------------------- *)
\* The objects of the program live in the sequence curves; a reference to a
\* curve is its index.  An object is one of
\*   [kind |-> "constant", alive, f]          f the flat rate
\*   [kind |-> "pwflat",   alive, t, f, _f]   pillar times, rates, extrapolation
\*   [kind |-> "plus",     alive, f, g]       references to the two operands
\* alive is FALSE once the object's destructor has run.
\* tr is the scoped translate wrapper with the array its span refers to
VARIABLES curves, last, kin, kres, tr

vars == <<curves, last, kin, kres, tr>>

\* most objects ever constructed
MaxCurves == 3
\* latest query time
MaxU == 3
\* frames the stack holds before it is exhausted
StackDepth == 3

\* the rate of curve_operator_test's c1 and the default rate NaN
CurveRates == {NaN, Num(1)}
\* the spread of curve_operator_test
Spreads == {Num(2)}
\* pillar data of test_pwflat_value and the repeated time of
\* test_pwflat_monotonic
PillarTimes == {<<1, 2>>, <<1, 1>>}
PillarRates == <<Num(2), Num(3)>>
\* query times: before 0, at 0, on the last pillar and past it
Us == {-1, 0, 2, MaxU}
\* lower bounds of an integral over [t, u]
Ts(u) == {0, 1}

Pair(a, b) == [k |-> "pair", first |-> a, second |-> b]
\* std::min on times, +infinity included
TMin(a, b) ==
    IF IsGarbage(a) \/ IsGarbage(b) THEN Garbage
    ELSE IF a.k = "inf" THEN b
    ELSE IF b.k = "inf" THEN a
    ELSE IF b.v < a.v THEN b ELSE a
\* -a
FNeg(a) ==
    IF IsUB(a) \/ IsNaN(a) \/ IsGarbage(a) THEN a
    ELSE IF IsInf(a) THEN (IF a = Inf THEN NegInf ELSE Inf)
    ELSE Num(0 - a.v)
\* std::exp: exp(0) is 1, exp(NaN) is NaN, exp(+inf) is +inf, exp(-inf) is
\* 0, any other value stays symbolic
FExp(a) ==
    IF IsUB(a) \/ IsNaN(a) \/ IsGarbage(a) THEN a
    ELSE IF a = Inf THEN Inf
    ELSE IF a = NegInf THEN Num(0)
    ELSE IF a.v = 0 THEN Num(1) ELSE [k |-> "exp", v |-> a.v]

RECURSIVE base_value(_, _, _)
RECURSIVE base_integral(_, _, _, _)
RECURSIVE base_extrapolate(_, _)
RECURSIVE base_back(_, _, _)

(* constant *)
constant_value_nan(c, u) == IF u < 0 THEN NaN ELSE c.f
constant_value(c, u) == c.f
constant_integral(c, u, t) == FMul(c.f, Num(u - t))
constant_extrapolate_set(cs, i, _f) == [cs EXCEPT ![i].f = _f]
constant_extrapolate(c) == c.f
constant_back(c) == Pair(Inf, c.f)

(* pwflat *)
pwflat_value(c, u) == forward(u, Len(c.t), c.t, c.f, c._f)
pwflat_integral(c, u, t0) ==
    FSub(integral(u, Len(c.t), c.t, c.f, c._f),
         integral(t0, Len(c.t), c.t, c.f, c._f))
pwflat_extrapolate_set(cs, i, e) == [cs EXCEPT ![i]._f = e]
pwflat_extrapolate(c) == c._f
\* std::vector::back on an empty vector is undefined: it reads the element
\* before the storage, or faults; word is what the two reads return, UB
\* when they fault
pwflat_back(c, word) ==
    IF Len(c.t) = 0 THEN word ELSE Pair(Num(c.t[Len(c.t)]), c.f[Len(c.f)])

(* plus *)
plus_value(cs, c, u) == FAdd(base_value(cs, c.f, u), base_value(cs, c.g, u))
plus_integral_from_t(cs, c, u, t) ==
    FAdd(base_integral(cs, c.f, u, t), base_integral(cs, c.g, u, t))
plus_integral(cs, c, u, t) ==
    FAdd(base_integral(cs, c.f, u, 0), base_integral(cs, c.g, u, 0))
RECURSIVE plus_extrapolate_set_operands(_, _, _)
plus_extrapolate_set_operands(cs, i, _f) ==
    LET set(xs, j) ==
            CASE xs[j].kind = "constant" -> constant_extrapolate_set(xs, j, _f)
              [] xs[j].kind = "pwflat" -> pwflat_extrapolate_set(xs, j, _f)
              [] xs[j].kind = "plus" -> plus_extrapolate_set_operands(xs, j, _f)
    IN  set(set(cs, cs[i].f), cs[i].g)
plus_extrapolate_set(cs, i, _f) == cs
plus_extrapolate(cs, c) ==
    FAdd(base_extrapolate(cs, c.f), base_extrapolate(cs, c.g))
plus_back(cs, c, word) ==
    LET fb == base_back(cs, c.f, word)
        gb == base_back(cs, c.g, word)
    IN  IF IsUB(fb) \/ IsUB(gb) THEN UB
        ELSE Pair(TMin(fb.first, gb.first), FAdd(fb.second, gb.second))

(* base: the public interface, dispatching on the dynamic type; a call   *)
(* through a reference to a destroyed object is undefined                *)
base_value(cs, i, u) ==
    IF ~cs[i].alive THEN UB
    ELSE CASE cs[i].kind = "constant" -> constant_value(cs[i], u)
           [] cs[i].kind = "pwflat" -> pwflat_value(cs[i], u)
           [] cs[i].kind = "plus" -> plus_value(cs, cs[i], u)
base_integral(cs, i, u, t) ==
    IF ~cs[i].alive THEN UB
    ELSE CASE cs[i].kind = "constant" -> constant_integral(cs[i], u, t)
           [] cs[i].kind = "pwflat" -> pwflat_integral(cs[i], u, t)
           [] cs[i].kind = "plus" -> plus_integral(cs, cs[i], u, t)
base_extrapolate_set(cs, i, _f) ==
    CASE cs[i].kind = "constant" -> constant_extrapolate_set(cs, i, _f)
      [] cs[i].kind = "pwflat" -> pwflat_extrapolate_set(cs, i, _f)
      [] cs[i].kind = "plus" -> plus_extrapolate_set(cs, i, _f)
base_extrapolate(cs, i) ==
    IF ~cs[i].alive THEN UB
    ELSE CASE cs[i].kind = "constant" -> constant_extrapolate(cs[i])
           [] cs[i].kind = "pwflat" -> pwflat_extrapolate(cs[i])
           [] cs[i].kind = "plus" -> plus_extrapolate(cs, cs[i])
base_back(cs, i, word) ==
    IF ~cs[i].alive THEN UB
    ELSE CASE cs[i].kind = "constant" -> constant_back(cs[i])
           [] cs[i].kind = "pwflat" -> pwflat_back(cs[i], word)
           [] cs[i].kind = "plus" -> plus_back(cs, cs[i], word)
\* forward(u, t) calls forward(u + t), which is forward(u + t, 0): every call
\* makes another one, until the stack is exhausted
RECURSIVE base_forward(_, _, _, _, _)
base_forward(cs, i, u, t, depth) ==
    IF depth >= StackDepth THEN Fault
    ELSE base_forward(cs, i, u + t, 0, depth + 1)
base_discount(cs, i, u, t) == FExp(FNeg(base_integral(cs, i, u, t)))

(* --------------------------- the program ------------------------------- *)
\* the record of the call in progress: op = "none" when no call is pending
Call(op, id, u, t, x, res) ==
    [op |-> op, id |-> id, u |-> u, t |-> t, x |-> x, res |-> res]
NoCall == Call("none", 0, 0, 0, NaN, NaN)
NoInput == [u |-> 0, n |-> 0, t |-> <<>>, f |-> <<>>, _f |-> NaN]
NoResult == [op |-> "none", res |-> NaN]
NoTranslate ==
    [pc |-> "none", dt |-> Zero, n |-> 0, t |-> <<>>, t0 |-> <<>>,
     view |-> <<>>]

Rates == {NaN} \cup {Num(x) : x \in 1 .. MaxRate}
Times == 0 .. MaxT

\* an evaluation of curve i reads an object that has been destroyed
RECURSIVE Dangling(_, _)
Dangling(cs, i) ==
    \/ ~cs[i].alive
    \/ /\ cs[i].kind = "plus"
       /\ Dangling(cs, cs[i].f) \/ Dangling(cs, cs[i].g)
\* what a member of type F of a destroyed object holds when it is read: the
\* rate it held, the rate of an object constructed in its storage since, or
\* anything else
StaleRates(f) == {f, Num(0), Garbage} \cup CurveRates
\* what the vectors of a destroyed pwflat, whose storage is released, hold
\* when they are read: no pillars, the pillars of a pwflat constructed in
\* its storage since, or anything else
StalePillars ==
    {[t |-> <<>>, f |-> <<>>]} \cup
    {[t |-> t_, f |-> SubSeq(PillarRates, 1, Len(t_))] : t_ \in PillarTimes}
    \cup {[t |-> <<1>>, f |-> <<Garbage>>]}
\* the objects the storage of the destroyed object j may be read as: an
\* object of its own type with stale members, or any object constructed in
\* its storage since, a Sum of newer curves included
Stale(cs, j) ==
    LET c == cs[j]
    IN  (CASE c.kind = "constant" ->
                {[c EXCEPT !.alive = TRUE, !.f = f] : f \in StaleRates(c.f)}
           [] c.kind = "pwflat" ->
                {[c EXCEPT !.alive = TRUE, !._f = _f] :
                   _f \in StaleRates(c._f)}
                \cup {[c EXCEPT !.alive = TRUE, !.t = p.t, !.f = p.f] :
                        p \in StalePillars}
           [] c.kind = "plus" -> {[c EXCEPT !.alive = TRUE]})
        \cup {[cs[k] EXCEPT !.alive = TRUE] : k \in j + 1 .. Len(cs)}
\* the operands of object x as a call may read them: its own when it is a
\* Sum, and, when it is destroyed, those of a Sum constructed since
Operands(cs, x) ==
    (IF cs[x].kind = "plus" THEN {cs[x].f, cs[x].g} ELSE {})
    \cup (IF cs[x].alive THEN {}
          ELSE UNION {{cs[k].f, cs[k].g} :
                        k \in {y \in x + 1 .. Len(cs) : cs[y].kind = "plus"}})
\* the objects an evaluation that has reached the objects of set may read
\* within depth further calls
RECURSIVE ReachFrom(_, _, _)
ReachFrom(cs, set, depth) ==
    IF depth = 0 THEN set
    ELSE ReachFrom(cs, set \cup UNION {Operands(cs, x) : x \in set},
                   depth - 1)
\* the objects an evaluation of curve i may read
Reach(cs, i) == ReachFrom(cs, {i}, Len(cs))
\* A call that reads a destroyed object is undefined.  When it returns, it
\* has read the storage of every destroyed object it reached as some
\* object: ReadsUpTo is the set of heaps a call reading the objects of
\* reach may see, for the first n objects of the heap.
RECURSIVE ReadsUpTo(_, _, _)
ReadsUpTo(cs, reach, n) ==
    IF n = 0 THEN {<<>>}
    ELSE {Append(h, c) :
            h \in ReadsUpTo(cs, reach, n - 1),
            c \in (IF n \in reach /\ ~cs[n].alive
                   THEN Stale(cs, n) ELSE {cs[n]})}
\* the evaluation of curve i in the heap h as read ends within depth nested
\* calls: a Sum read in the storage of one of its own operands calls
\* itself until the stack is exhausted
RECURSIVE Ends(_, _, _)
Ends(h, i, depth) ==
    /\ depth > 0
    /\ h[i].kind = "plus" =>
         Ends(h, h[i].f, depth - 1) /\ Ends(h, h[i].g, depth - 1)
\* the heaps a call on curve i may see when it returns: the heap itself
\* when every object the call reads is alive
Reads(cs, i) ==
    IF Dangling(cs, i)
    THEN {h \in ReadsUpTo(cs, Reach(cs, i), Len(cs)) : Ends(h, i, Len(h))}
    ELSE {cs}
\* or it does not return: the call through the destroyed object faults
Faults(cs, i) == IF Dangling(cs, i) THEN {Fault} ELSE {}
\* what back() of an empty vector reads before the storage: it faults (UB),
\* or the two reads return whatever is there
BackReads ==
    {UB} \cup {Pair(a, b) : a \in {Garbage}, b \in {Garbage, Num(0)}}
\* what a caller can observe of back(): its value, or a fault
BackOutcomes(r) == IF IsUB(r) THEN {Fault} ELSE {r}

Live == {i \in 1 .. Len(curves) : curves[i].alive}
Idle == last.op = "none"

Init ==
    /\ curves = <<>>
    /\ last = NoCall
    /\ kin = NoInput
    /\ kres = NoResult
    /\ tr = NoTranslate

\* constant(F f)
NewConstant(f) ==
    /\ Idle /\ Len(curves) < MaxCurves
    /\ curves' = Append(curves, [kind |-> "constant", alive |-> TRUE, f |-> f])
    /\ UNCHANGED <<last, kin, kres, tr>>

\* pwflat(F _f): no pillars
NewPwflatF(_f) ==
    /\ Idle /\ Len(curves) < MaxCurves
    /\ curves' = Append(curves, [kind |-> "pwflat", alive |-> TRUE,
                                 t |-> <<>>, f |-> <<>>, _f |-> _f])
    /\ UNCHANGED <<last, kin, kres, tr>>

\* pwflat(size_t n, const T* t_, const F* f_, F _f): copies the arrays
NewPwflat(n, t_, f_, _f) ==
    /\ Idle /\ Len(curves) < MaxCurves
    /\ curves' = Append(curves, [kind |-> "pwflat", alive |-> TRUE,
                                 t |-> SubSeq(t_, 1, n), f |-> SubSeq(f_, 1, n),
                                 _f |-> _f])
    /\ UNCHANGED <<last, kin, kres, tr>>

\* plus(const base& f, const base& g): keeps the two references
NewPlus(f, g) ==
    /\ Idle /\ Len(curves) < MaxCurves
    /\ f \in Live /\ g \in Live
    /\ curves' = Append(curves, [kind |-> "plus", alive |-> TRUE,
                                 f |-> f, g |-> g])
    /\ UNCHANGED <<last, kin, kres, tr>>

\* plus(const plus& p): copies the two references, whatever they refer to
CopyPlus(p) ==
    /\ Idle /\ Len(curves) < MaxCurves
    /\ p \in Live /\ curves[p].kind = "plus"
    /\ curves' = Append(curves, curves[p])
    /\ UNCHANGED <<last, kin, kres, tr>>

\* plus(const base& f, F s): g is bound to the temporary constant(s), which is
\* destroyed when the constructor returns
NewPlusScalar(f, s) ==
    /\ Idle /\ Len(curves) + 1 < MaxCurves
    /\ f \in Live
    /\ curves' = curves \o
         << [kind |-> "constant", alive |-> FALSE, f |-> s],
            [kind |-> "plus", alive |-> TRUE, f |-> f, g |-> Len(curves) + 1] >>
    /\ UNCHANGED <<last, kin, kres, tr>>

\* constant& operator=(const constant& c): copies the rate
ConstantAssign(i, c) ==
    /\ Idle /\ i \in Live /\ c \in Live
    /\ curves[i].kind = "constant" /\ curves[c].kind = "constant"
    /\ curves' = [curves EXCEPT ![i].f = curves[c].f]
    /\ UNCHANGED <<last, kin, kres, tr>>

\* pwflat& operator=(const pwflat&): copies the pillars and _f
PwflatAssign(i, p) ==
    /\ Idle /\ i \in Live /\ p \in Live
    /\ curves[i].kind = "pwflat" /\ curves[p].kind = "pwflat"
    /\ curves' = [curves EXCEPT ![i].t = curves[p].t, ![i].f = curves[p].f,
                                ![i]._f = curves[p]._f]
    /\ UNCHANGED <<last, kin, kres, tr>>

\* pwflat(pwflat&&): the new curve takes the vectors of p, which are left
\* empty; _f is copied
PwflatMove(p) ==
    /\ Idle /\ Len(curves) < MaxCurves
    /\ p \in Live /\ curves[p].kind = "pwflat"
    /\ curves' = Append([curves EXCEPT ![p].t = <<>>, ![p].f = <<>>],
                        curves[p])
    /\ UNCHANGED <<last, kin, kres, tr>>

\* pwflat& operator=(pwflat&&): curve i takes the vectors of p, which are
\* left empty, also when p is i; _f is copied
PwflatMoveAssign(i, p) ==
    /\ Idle /\ i \in Live /\ p \in Live
    /\ curves[i].kind = "pwflat" /\ curves[p].kind = "pwflat"
    /\ curves' = [curves EXCEPT ![i] = curves[p],
                                ![p].t = <<>>, ![p].f = <<>>]
    /\ UNCHANGED <<last, kin, kres, tr>>

\* ~base(): the lifetime of curve i ends, and the Sums that refer to it
\* keep their references; ~pwflat() releases the storage of the two vectors
Destroy(i) ==
    /\ Idle /\ i \in Live
    /\ curves' = IF curves[i].kind = "pwflat"
                 THEN [curves EXCEPT ![i].alive = FALSE,
                                     ![i].t = <<>>, ![i].f = <<>>]
                 ELSE [curves EXCEPT ![i].alive = FALSE]
    /\ UNCHANGED <<last, kin, kres, tr>>

\* base& extrapolate(F _f): returns the curve itself
ExtrapolateSet(i, _f) ==
    /\ Idle /\ i \in Live
    /\ curves' = base_extrapolate_set(curves, i, _f)
    /\ last' = Call("extrapolate_set", i, 0, 0, _f, Num(i))
    /\ UNCHANGED <<kin, kres, tr>>

\* F extrapolate() const
ExtrapolateGet(i) ==
    /\ Idle /\ i \in Live
    /\ \E r \in {base_extrapolate(h, i) : h \in Reads(curves, i)}
               \cup Faults(curves, i) :
         last' = Call("extrapolate", i, 0, 0, NaN, r)
    /\ UNCHANGED <<curves, kin, kres, tr>>

\* F value(T u) const
Value(i, u) ==
    /\ Idle /\ i \in Live
    /\ \E r \in {base_value(h, i, u) : h \in Reads(curves, i)}
               \cup Faults(curves, i) :
         last' = Call("value", i, u, 0, NaN, r)
    /\ UNCHANGED <<curves, kin, kres, tr>>

\* F integral(T u, T t = 0) const
Integral(i, u, t) ==
    /\ Idle /\ i \in Live
    /\ \E r \in {base_integral(h, i, u, t) : h \in Reads(curves, i)}
               \cup Faults(curves, i) :
         last' = Call("integral", i, u, t, NaN, r)
    /\ UNCHANGED <<curves, kin, kres, tr>>

\* F discount(T u, T t = 0) const
Discount(i, u, t) ==
    /\ Idle /\ i \in Live
    /\ \E r \in {base_discount(h, i, u, t) : h \in Reads(curves, i)}
               \cup Faults(curves, i) :
         last' = Call("discount", i, u, t, NaN, r)
    /\ UNCHANGED <<curves, kin, kres, tr>>

\* F forward(T u, T t = 0) const
Forward(i, u, t) ==
    /\ Idle /\ i \in Live
    /\ last' = Call("forward", i, u, t, NaN, base_forward(curves, i, u, t, 0))
    /\ UNCHANGED <<curves, kin, kres, tr>>

\* std::pair<T, F> back() const
Back(i) ==
    /\ Idle /\ i \in Live
    /\ \E r \in UNION {BackOutcomes(base_back(h, i, word)) :
                         h \in Reads(curves, i), word \in BackReads}
               \cup Faults(curves, i) :
         last' = Call("back", i, 0, 0, NaN, r)
    /\ UNCHANGED <<curves, kin, kres, tr>>

\* the caller takes the result and goes on
Return ==
    /\ ~Idle
    /\ last' = NoCall
    /\ UNCHANGED <<curves, kin, kres, tr>>

Next ==
    \/ \E f \in CurveRates : NewConstant(f)
    \/ \E _f \in CurveRates : NewPwflatF(_f)
    \/ \E t_ \in PillarTimes, _f \in CurveRates :
         NewPwflat(Len(t_), t_, PillarRates, _f)
    \/ \E f \in 1 .. MaxCurves, g \in 1 .. MaxCurves : NewPlus(f, g)
    \/ \E p \in 1 .. MaxCurves : CopyPlus(p)
    \/ \E f \in 1 .. MaxCurves, s \in Spreads : NewPlusScalar(f, s)
    \/ \E i \in 1 .. MaxCurves, c \in 1 .. MaxCurves : ConstantAssign(i, c)
    \/ \E i \in 1 .. MaxCurves, p \in 1 .. MaxCurves : PwflatAssign(i, p)
    \/ \E p \in 1 .. MaxCurves : PwflatMove(p)
    \/ \E i \in 1 .. MaxCurves, p \in 1 .. MaxCurves : PwflatMoveAssign(i, p)
    \/ \E i \in 1 .. MaxCurves : Destroy(i)
    \/ \E i \in 1 .. MaxCurves, _f \in CurveRates : ExtrapolateSet(i, _f)
    \/ \E i \in 1 .. MaxCurves : ExtrapolateGet(i)
    \/ \E i \in 1 .. MaxCurves, u \in Us : Value(i, u)
    \/ \E i \in 1 .. MaxCurves, u \in {-1, 2} : \E t \in Ts(u) :
         Integral(i, u, t)
    \/ \E i \in 1 .. MaxCurves, u \in {0, 2} : \E t \in {0, u} :
         Discount(i, u, t)
    \/ \E i \in 1 .. MaxCurves, u \in {0, 1} : Forward(i, u, 1)
    \/ \E i \in 1 .. MaxCurves : Back(i)
    \/ Return

Spec == Init /\ [][Next]_vars

(* ------------------ values before time 0, any rates -------------------- *)
\* rates of a constant: those of Spec and the two infinities
WideRates == CurveRates \cup {Inf, NegInf}

\* curves of every variant, constants of any rate, asked for their value
\* before time 0
NextNegative ==
    \/ \E f \in WideRates : NewConstant(f)
    \/ \E _f \in CurveRates : NewPwflatF(_f)
    \/ \E t_ \in PillarTimes, _f \in CurveRates :
         NewPwflat(Len(t_), t_, PillarRates, _f)
    \/ \E f \in 1 .. MaxCurves, g \in 1 .. MaxCurves : NewPlus(f, g)
    \/ \E f \in 1 .. MaxCurves, s \in Spreads : NewPlusScalar(f, s)
    \/ \E i \in 1 .. MaxCurves : Destroy(i)
    \/ \E i \in 1 .. MaxCurves, _f \in WideRates : ExtrapolateSet(i, _f)
    \/ \E i \in 1 .. MaxCurves, u \in {x \in Us : x < 0} : Value(i, u)
    \/ Return

SpecNegative == Init /\ [][NextNegative]_vars

(* ----------------------- the kernel on its own ------------------------- *)
\* every strictly increasing pillar array of at most MaxN times, with rates,
\* an extrapolation value and a query time
InitKernel ==
    /\ curves = <<>>
    /\ last = NoCall
    /\ kres = NoResult
    /\ tr = NoTranslate
    /\ \E n \in 0 .. MaxN :
         \E t \in [1 .. n -> Times], f \in [1 .. n -> Rates] :
           \E u \in -1 .. MaxT + 1, _f \in Rates :
             /\ monotonic(n, t)
             /\ kin = [u |-> u, n |-> n, t |-> t, f |-> f, _f |-> _f]

KernelValue ==
    /\ kres.op = "none"
    /\ kres' = [op |-> "value",
                res |-> value(kin.u, kin.n, kin.t, kin.f, kin._f)]
    /\ UNCHANGED <<curves, last, kin, tr>>

KernelIntegral ==
    /\ kres.op = "none"
    /\ kres' = [op |-> "integral",
                res |-> integral(kin.u, kin.n, kin.t, kin.f, kin._f)]
    /\ UNCHANGED <<curves, last, kin, tr>>

NextKernel ==
    \/ KernelValue
    \/ KernelIntegral

SpecKernel == InitKernel /\ [][NextKernel]_vars

(* ------------------- the scoped translate wrapper ---------------------- *)
\* shifts: small ones, and ones near 2^53 in magnitude
Shifts ==
    {d \in {Wide(h, l) : h \in -1 .. 1, l \in (0 - MaxT) - 1 .. MaxT + 1} :
       Representable(d)}

\* every strictly increasing array of at most MaxN times and every shift;
\* t0 keeps the contents of the array before the wrapper is constructed
InitTranslate ==
    /\ curves = <<>>
    /\ last = NoCall
    /\ kin = NoInput
    /\ kres = NoResult
    /\ \E n \in 0 .. MaxN :
         \E a \in [1 .. n -> Times], dt \in Shifts :
           /\ monotonic(n, a)
           /\ LET t == [i \in 1 .. n |-> Wide(0, a[i])]
              IN  tr = [pc |-> "start", dt |-> dt, n |-> 0, t |-> t,
                        t0 |-> t, view |-> <<>>]

\* tmx::translate w(dt, t)
TranslateConstruct ==
    /\ tr.pc = "start"
    /\ LET w == translate_ctor(tr.dt, tr.t)
       IN  tr' = [tr EXCEPT !.pc = "live", !.n = w.n, !.t = w.t]
    /\ UNCHANGED <<curves, last, kin, kres>>

\* std::span<T> v = w
TranslateSpan ==
    /\ tr.pc = "live"
    /\ tr' = [tr EXCEPT !.pc = "viewed", !.view = translate_span(tr.n, tr.t)]
    /\ UNCHANGED <<curves, last, kin, kres>>

\* w goes out of scope
TranslateDestroy ==
    /\ tr.pc \in {"live", "viewed"}
    /\ tr' = [tr EXCEPT !.pc = "destroyed",
                        !.t = translate_dtor(tr.dt, tr.n, tr.t)]
    /\ UNCHANGED <<curves, last, kin, kres>>

NextTranslate ==
    \/ TranslateConstruct
    \/ TranslateSpan
    \/ TranslateDestroy

SpecTranslate == InitTranslate /\ [][NextTranslate]_vars

(* ------------------------------ claims --------------------------------- *)
Min(S) == CHOOSE x \in S : \A y \in S : x <= y

\* C1: for a strictly increasing pillar array the kernel value is NaN for
\* u < 0, else _f for n = 0, else the rate of the first pillar whose time is
\* at least u, else _f past the last pillar; a query on a pillar returns
\* that pillar's rate and u = 0 returns f[0].
C1_ValueIsFirstPillarAtLeast ==
    kres.op = "value" /\ monotonic(kin.n, kin.t) =>
      LET u == kin.u
          n == kin.n
          S == {i \in 1 .. n : kin.t[i] >= u}
      IN  /\ kres.res = IF u < 0 THEN NaN
                        ELSE IF n = 0 THEN kin._f
                        ELSE IF S # {} THEN kin.f[Min(S)]
                        ELSE kin._f
          /\ \A k \in 1 .. n : u >= 0 /\ u = kin.t[k] => kres.res = kin.f[k]
          /\ u = 0 /\ n > 0 => kres.res = kin.f[1]

\* a query on the middle pillar of three, answered by that pillar's rate
C1_Witness ==
    /\ kres.op = "value"
    /\ kin.n = 3 /\ kin.u = kin.t[2]
    /\ kin.f[1] = Num(1) /\ kin.f[2] = Num(2) /\ kin.f[3] = Num(1)
    /\ kres.res = Num(2)

\* the sum of f[i] * (t[i] - t[i-1]) over the first k pillars, t[0] = 0
RECURSIVE PillarSum(_, _, _)
PillarSum(t, f, k) ==
    IF k = 0 THEN Num(0)
    ELSE FAdd(PillarSum(t, f, k - 1),
              FMul(f[k], Num(t[k] - (IF k = 1 THEN 0 ELSE t[k - 1]))))

\* C2: for a strictly increasing pillar array the kernel integral is NaN for
\* u < 0, 0 for u = 0, u * _f for n = 0, and otherwise the sum of
\* f[i] * (t[i] - t[i-1]) over the pillars with t[i] <= u plus, when u is
\* past the last of them, (u - its time) times the next pillar's rate, or
\* times _f past all pillars; on a pillar nothing is added.
C2_IntegralIsAntiderivative ==
    kres.op = "integral" /\ monotonic(kin.n, kin.t) =>
      LET u == kin.u
          n == kin.n
          k == Cardinality({i \in 1 .. n : kin.t[i] <= u})
          tk == IF k = 0 THEN 0 ELSE kin.t[k]
          whole == PillarSum(kin.t, kin.f, k)
      IN  kres.res =
            IF u < 0 THEN NaN
            ELSE IF u = 0 THEN Num(0)
            ELSE IF n = 0 THEN FMul(Num(u), kin._f)
            ELSE IF u > tk
                 THEN FAdd(whole, FMul(IF k = n THEN kin._f ELSE kin.f[k + 1],
                                       Num(u - tk)))
                 ELSE whole

\* a query strictly between the first and the second pillar: one whole
\* interval and a part of the second at the second pillar's rate
C2_Witness ==
    /\ kres.op = "integral"
    /\ kin.n = 2 /\ kin.t = <<1, 3>> /\ kin.u = 2
    /\ kin.f = <<Num(1), Num(2)>> /\ kin._f = Num(1)
    /\ kres.res = Num(3)

\* every object an evaluation of curve i reads is alive
RECURSIVE Defined(_, _)
Defined(cs, i) ==
    /\ cs[i].alive
    /\ cs[i].kind = "plus" => Defined(cs, cs[i].f) /\ Defined(cs, cs[i].g)

\* C3: forward(u, t) completes and returns value(u + t), for every curve.
C3_ForwardIsValueAtSum ==
    last.op = "forward" =>
      last.res = base_value(curves, last.id, last.u + last.t)

RECURSIVE DefinedRates(_, _, _)
DefinedRates(cs, i, u) ==
    /\ cs[i].alive
    /\ CASE cs[i].kind = "constant" -> ~IsNaN(cs[i].f)
         [] cs[i].kind = "pwflat" ->
              /\ \A k \in 1 .. Len(cs[i].f) : ~IsNaN(cs[i].f[k])
              /\ \/ ~IsNaN(cs[i]._f)
                 \/ Len(cs[i].t) > 0 /\ u <= cs[i].t[Len(cs[i].t)]
         [] cs[i].kind = "plus" ->
              DefinedRates(cs, cs[i].f, u) /\ DefinedRates(cs, cs[i].g, u)

\* C5: for every curve with defined rates and u >= 0 in its range,
\* discount(u, u) is 1.
C5_DiscountIsOneAtEqualBounds ==
    /\ last.op = "discount" /\ last.u = last.t /\ last.u >= 0
    /\ DefinedRates(curves, last.id, last.u)
    => last.res = Num(1)

\* C6: a Sum's integral(u, t) is f.integral(u, 0) + g.integral(u, 0) whatever
\* t is, so it is the same for every t, while the integral(u, t) of a
\* Constant or PiecewiseFlat curve is its integral to u less its integral
\* to t.
C6_SumIntegralIgnoresLowerBound ==
    last.op = "integral" /\ Defined(curves, last.id) =>
      LET c == curves[last.id]
      IN  IF c.kind = "plus"
          THEN /\ last.res = FAdd(base_integral(curves, c.f, last.u, 0),
                                  base_integral(curves, c.g, last.u, 0))
               /\ \A t2 \in Us :
                    base_integral(curves, last.id, last.u, t2) = last.res
          ELSE last.res = FSub(base_integral(curves, last.id, last.u, 0),
                               base_integral(curves, last.id, last.t, 0))

\* the integral to 2 from 1 of Constant(1) + PiecewiseFlat([1,2], [2,3]):
\* 2 + 5, not the 1 + 3 of the interval [1, 2]
C6_Witness ==
    /\ last.op = "integral" /\ last.u = 2 /\ last.t = 1
    /\ curves[last.id].kind = "plus"
    /\ curves[curves[last.id].f].kind = "constant"
    /\ curves[curves[last.id].g].kind = "pwflat"
    /\ curves[curves[last.id].g].t = <<1, 2>>
    /\ last.res = Num(7)

\* the value the operands of a Sum are said to have: a spread s is a
\* Constant(s) for as long as the Sum is used
RECURSIVE ClaimedValue(_, _, _)
ClaimedValue(cs, i, u) ==
    CASE cs[i].kind = "constant" -> cs[i].f
      [] cs[i].kind = "pwflat" -> pwflat_value(cs[i], u)
      [] cs[i].kind = "plus" ->
           FAdd(ClaimedValue(cs, cs[i].f, u), ClaimedValue(cs, cs[i].g, u))

\* C7: a Sum's value(u) is its operands' current f.value(u) + g.value(u),
\* after any extrapolate calls on them, and in the curve-plus-scalar form
\* the second operand is a Constant(s): value(u) = f.value(u) + s.
C7_SumFollowsOperands ==
    last.op = "value" /\ curves[last.id].kind = "plus" =>
      last.res = ClaimedValue(curves, last.id, last.u)

\* C8: extrapolate(x) on a Sum returns the same Sum and changes no object,
\* so the Sum's extrapolate() is still f.extrapolate() + g.extrapolate().
C8_SumExtrapolateSetIsInert ==
    [][ /\ last.op = "none" /\ last'.op = "extrapolate_set"
        /\ curves[last'.id].kind = "plus"
        => /\ last'.res = Num(last'.id)
           /\ curves' = curves
           /\ Defined(curves, last'.id) =>
                base_extrapolate(curves', last'.id) =
                  FAdd(base_extrapolate(curves, curves[last'.id].f),
                       base_extrapolate(curves, curves[last'.id].g)) ]_vars

\* extrapolate(1) was called on a Sum whose extrapolation value is NaN
C8_Witness ==
    /\ last.op = "extrapolate_set" /\ last.x = Num(1)
    /\ curves[last.id].kind = "plus"
    /\ Defined(curves, last.id)
    /\ IsNaN(base_extrapolate(curves, last.id))
    /\ \E j \in {curves[last.id].f, curves[last.id].g} :
         curves[j].kind = "pwflat"

\* the error value asked of back() on a curve without pillars
EmptyCurve == [k |-> "error", v |-> 0]

\* C9: back() on a PiecewiseFlat curve returns the last pillar's time and
\* rate, and an explicit empty-curve error when there is no pillar.
C9_BackOfPiecewiseFlat ==
    last.op = "back" /\ curves[last.id].kind = "pwflat" =>
      LET c == curves[last.id]
      IN  last.res = IF Len(c.t) > 0
                     THEN Pair(Num(c.t[Len(c.t)]), c.f[Len(c.f)])
                     ELSE EmptyCurve

\* C10: no PiecewiseFlat curve exists whose pillar times are not strictly
\* increasing or whose arrays differ in length.
C10_PillarsStrictlyIncreasing ==
    \A i \in 1 .. Len(curves) :
      curves[i].kind = "pwflat" =>
        /\ monotonic(Len(curves[i].t), curves[i].t)
        /\ Len(curves[i].t) = Len(curves[i].f)

\* the wrapper's state is as the claim says: while it is live every time is
\* the time before construction less dt and the span is the trailing times
\* greater than 0, and once it is destroyed the array is as it was
TranslateAsClaimed ==
    LET n == Len(tr.t0)
        k == Cardinality({i \in 1 .. n : ~TLess(Zero, tr.t[i])})
    IN  /\ tr.pc \in {"live", "viewed"} =>
             /\ \A i \in 1 .. n : tr.t[i] = TExact(tr.t0[i], tr.dt)
             /\ \A i \in 1 .. n : TLess(Zero, tr.t[i]) <=> i > k
             /\ tr.n = n - k
        /\ tr.pc = "viewed" => tr.view = SubSeq(tr.t, k + 1, n)
        /\ tr.pc = "destroyed" => tr.t = tr.t0

\* every t[i] - dt is a double: the shift is computed without rounding
ExactShift ==
    \A i \in 1 .. Len(tr.t0) : Representable(TExact(tr.t0[i], tr.dt))

\* C11 as claimed: for every strictly increasing array and every shift dt,
\* while the wrapper is live every time is shifted by -dt and the span is
\* the trailing times > 0, and after its destruction the whole array equals
\* its contents before construction.
C11_TranslateIsReversible == TranslateAsClaimed

\* C11 as amended: the same, for every strictly increasing array and every
\* shift dt for which each t[i] - dt is computed without rounding.
C11_ExactTranslateIsReversible == ExactShift => TranslateAsClaimed

\* [1, 2, 3] shifted by 2 exposed one time, expired two, and is restored
C11_Witness ==
    /\ tr.pc = "destroyed"
    /\ tr.dt = Wide(0, 2)
    /\ tr.t0 = <<Wide(0, 1), Wide(0, 2), Wide(0, 3)>>
    /\ tr.n = 1
    /\ tr.t = tr.t0

====
